---- MODULE Spec2Model ----
(***************************************************************************)
(* Model of the iex-rs client layer: the primitive coercion adapters       *)
(* (from_str, from_bool_str), the serde record schemas built on them, the  *)
(* Response envelope and Client::stocks_request.                           *)
(*                                                                         *)
(* Text (Rust String / &str) is modelled as a sequence of one-character    *)
(* strings, so that parsing and formatting operate on characters.          *)
(***************************************************************************)
EXTENDS Integers, Sequences, FiniteSets, TLC

VARIABLES
    \* one application of a coercion adapter
    co_T,        \* the numeric target type T of from_str
    co_input,    \* the JSON value handed to the adapter
    co_op,       \* "none", or the adapter that was applied
    co_out,      \* its result
    \* one record on its way through Serialize / Deserialize
    de_T,        \* the record schema
    de_shape,    \* shape of the payload: "one", "Vec" or "HashMap"
    de_rec,      \* the record value that was serialized, if any
    de_json,     \* the JSON value
    de_target,   \* the target type of the conversion
    de_out,      \* result of the conversion
    de_pc,       \* "record", "payload" or "done"
    \* the client
    calls,       \* per caller: the stocks_request call in progress / its result
    gets,        \* the GET requests handed to the fetch collaborator, in order
    envelopes,   \* every Response created so far
    conv         \* the last Response::try_into call and its result

vars == <<co_T, co_input, co_op, co_out,
          de_T, de_shape, de_rec, de_json, de_target, de_out, de_pc,
          calls, gets, envelopes, conv>>

co_vars == <<co_T, co_input, co_op, co_out>>
de_vars == <<de_T, de_shape, de_rec, de_json, de_target, de_out, de_pc>>
cl_vars == <<calls, gets, envelopes, conv>>

(***************************************************************************)
(* Bounds.                                                                 *)
(***************************************************************************)
\* longest text handed to a coercion adapter
MaxLen == 3

\* characters the coercion inputs are drawn from
Chars == {"0", "2", "4", "+", "-", "a", "N", "F", "T", "n"}

Digits == {"0", "1", "2", "3", "4", "5", "6", "7", "8", "9"}

RECURSIVE StringsOfLen(_)
StringsOfLen(n) ==
    IF n = 0 THEN {<<>>}
    ELSE {Append(s, c) : s \in StringsOfLen(n - 1), c \in Chars}

Strings == UNION {StringsOfLen(n) : n \in 0..MaxLen}

(***************************************************************************)
(* Results: Ok(v) / Err(e).                                                *)
(***************************************************************************)
Ok(v) == [ok |-> TRUE, val |-> v]
Err(e) == [ok |-> FALSE, err |-> e]

(***************************************************************************)
(* <T as FromStr>::from_str for the integer types, radix 10 (core::num     *)
(* from_str_radix).  T is one of the names in NumericTypes.                *)
(***************************************************************************)
NumericTypes == {"u64", "u8", "i8"}

is_signed_ty(T) == T = "i8"

DigitVal(c) ==
    CASE c = "0" -> 0 [] c = "1" -> 1 [] c = "2" -> 2 [] c = "3" -> 3
      [] c = "4" -> 4 [] c = "5" -> 5 [] c = "6" -> 6 [] c = "7" -> 7
      [] c = "8" -> 8 [] c = "9" -> 9

\* decimal digits of T::MAX, and of -T::MIN for the signed types
MaxDigits(T, is_positive) ==
    CASE T = "u64" ->
           <<"1","8","4","4","6","7","4","4","0","7","3","7","0","9","5","5","1","6","1","5">>
      [] T = "u8" -> <<"2", "5", "5">>
      [] T = "i8" -> IF is_positive THEN <<"1", "2", "7">> ELSE <<"1", "2", "8">>

RECURSIVE StripZeros(_)
StripZeros(ds) ==
    IF ds # <<>> /\ Head(ds) = "0" THEN StripZeros(Tail(ds)) ELSE ds

\* lexicographic > on digit sequences of equal length
RECURSIVE DigitsGreater(_, _)
DigitsGreater(a, b) ==
    IF a = <<>> THEN FALSE
    ELSE IF DigitVal(Head(a)) # DigitVal(Head(b))
         THEN DigitVal(Head(a)) > DigitVal(Head(b))
         ELSE DigitsGreater(Tail(a), Tail(b))

\* checked_mul / checked_add (checked_sub when negative) fail: the numeral
\* lies outside the range of T
Overflows(T, is_positive, ds) ==
    LET z == StripZeros(ds)
        m == MaxDigits(T, is_positive) IN
    \/ Len(z) > Len(m)
    \/ Len(z) = Len(m) /\ DigitsGreater(z, m)

RECURSIVE AccumulateDigits(_, _)
AccumulateDigits(acc, ds) ==
    IF ds = <<>> THEN acc
    ELSE AccumulateDigits(acc * 10 + DigitVal(Head(ds)), Tail(ds))

int_from_str(T, src) ==
    IF src = <<>> THEN Err([parse |-> "Empty"])
    ELSE LET is_positive == ~(Head(src) = "-" /\ is_signed_ty(T))
             digits == IF Head(src) = "+" \/ ~is_positive THEN Tail(src) ELSE src IN
         IF digits = <<>> THEN Err([parse |-> "Empty"])
         ELSE IF \E i \in 1..Len(digits) : digits[i] \notin Digits
              THEN Err([parse |-> "InvalidDigit"])
         ELSE IF Overflows(T, is_positive, digits)
              THEN Err([parse |-> IF is_positive THEN "Overflow" ELSE "Underflow"])
         ELSE Ok(IF is_positive THEN AccumulateDigits(0, digits)
                 ELSE 0 - AccumulateDigits(0, digits))

\* <ParseIntError as Display>::fmt
ParseIntErrorMsg(kind) ==
    CASE kind = "Empty" -> "cannot parse integer from empty string"
      [] kind = "InvalidDigit" -> "invalid digit found in string"
      [] kind = "Overflow" -> "number too large to fit in target type"
      [] kind = "Underflow" -> "number too small to fit in target type"

(***************************************************************************)
(* <bool as FromStr>::from_str.                                            *)
(***************************************************************************)
STR_true == <<"t", "r", "u", "e">>
STR_false == <<"f", "a", "l", "s", "e">>

bool_from_str(src) ==
    IF src = STR_true THEN Ok(TRUE)
    ELSE IF src = STR_false THEN Ok(FALSE)
    ELSE Err([parse |-> "ParseBoolError"])

(***************************************************************************)
(* serde errors.  de::Error::custom(msg) keeps only the message text;      *)
(* missing_field carries the field name; invalid_type carries the kind of  *)
(* value found and the kind expected.                                      *)
(***************************************************************************)
CustomError(m) == [kind |-> "custom", msg |-> m]
MissingField(f) == [kind |-> "missing_field", field |-> f]
InvalidType(found, expected) ==
    [kind |-> "invalid_type", unexpected |-> found, expected |-> expected]
InvalidValue(found, expected) ==
    [kind |-> "invalid_value", unexpected |-> found, expected |-> expected]

(***************************************************************************)
(* serde_json::Value.  Every variant has its own payload field, so values  *)
(* of different variants are records over different field names.           *)
(*   f64 is modelled as a count of units of 10^-5, with fin = FALSE for    *)
(*   the non-finite values.                                                *)
(***************************************************************************)
JNull == [t |-> "null"]
JBool(b) == [t |-> "bool", b |-> b]
JPosInt(n) == [t |-> "uint", u |-> n]
JNegInt(n) == [t |-> "nint", i |-> n]
JFloat(x) == [t |-> "float", f |-> x]
JString(s) == [t |-> "string", s |-> s]
JArray(a) == [t |-> "array", a |-> a]
JObject(m) == [t |-> "object", m |-> m]

F64(e5) == [fin |-> TRUE, e5 |-> e5]
F64_INFINITY == [fin |-> FALSE, e5 |-> 0]

\* serde::de::Unexpected built from a Value: scalars carry their value,
\* sequences and maps do not
Unexpected(v) ==
    IF v.t \in {"array", "object"} THEN [t |-> v.t] ELSE v

(***************************************************************************)
(* Deserialize for the primitive field types, from a Value.                *)
(***************************************************************************)
\* String::deserialize reading null as the empty text
String_deserialize_null_as_empty(v) ==
    IF v.t = "string" THEN Ok(v.s)
    ELSE IF v.t = "null" THEN Ok(<<>>)
    ELSE Err(InvalidType(Unexpected(v), "a string"))

String_deserialize(v) ==
    IF v.t = "string" THEN Ok(v.s)
    ELSE Err(InvalidType(Unexpected(v), "a string"))

bool_deserialize(v) ==
    IF v.t = "bool" THEN Ok(v.b)
    ELSE Err(InvalidType(Unexpected(v), "a boolean"))

u64_deserialize(v) ==
    CASE v.t = "uint" -> Ok(v.u)
      [] v.t = "nint" -> Err(InvalidValue(Unexpected(v), "u64"))
      [] OTHER -> Err(InvalidType(Unexpected(v), "u64"))

f64_deserialize(v) ==
    CASE v.t = "uint" -> Ok(F64(v.u * 100000))
      [] v.t = "nint" -> Ok(F64(v.i * 100000))
      [] v.t = "float" -> Ok(v.f)
      [] OTHER -> Err(InvalidType(Unexpected(v), "f64"))

(***************************************************************************)
(* The coercion adapters.  from_str is generic in its target T; the record *)
(* schemas instantiate it at u64.  from_bool_str is instantiated at bool.  *)
(***************************************************************************)
STR_0 == <<"0">>
STR_N == <<"N">>
STR_F == <<"F">>

\* from_str without the empty-text rule
from_str_no_empty_rule(T, deserializer) ==
    LET d == String_deserialize(deserializer) IN
    IF ~d.ok THEN d
    ELSE LET r == int_from_str(T, d.val) IN
         IF r.ok THEN r ELSE Err(CustomError(ParseIntErrorMsg(r.err.parse)))

from_str(T, deserializer) ==
    LET d == String_deserialize(deserializer) IN
    IF ~d.ok THEN d
    ELSE LET s == IF Len(d.val) = 0 THEN STR_0 ELSE d.val
             r == int_from_str(T, s) IN
         IF r.ok THEN r ELSE Err(CustomError(ParseIntErrorMsg(r.err.parse)))

\* from_bool_str comparing the flag letters without regard to case
from_bool_str_any_case(deserializer) ==
    LET d == String_deserialize(deserializer) IN
    IF ~d.ok THEN d
    ELSE LET s == IF d.val \in {STR_N, STR_F, <<"n">>, <<"f">>, <<>>}
                  THEN STR_false ELSE STR_true
             r == bool_from_str(s) IN
         IF r.ok THEN r
         ELSE Err(CustomError("provided string was not true or false"))

from_bool_str(deserializer) ==
    LET d == String_deserialize(deserializer) IN
    IF ~d.ok THEN d
    ELSE LET s == IF d.val = STR_N \/ d.val = STR_F \/ d.val = <<>>
                  THEN STR_false ELSE STR_true
             r == bool_from_str(s) IN
         IF r.ok THEN r
         ELSE Err(CustomError("provided string was not true or false"))

(***************************************************************************)
(* chrono::NaiveDate: parsing of the ISO calendar form YYYY-MM-DD (the     *)
(* form the service sends) and the Debug/Serialize form.  Text in any      *)
(* other form is rejected.                                                 *)
(***************************************************************************)
NaiveDate(y, m, d) == [y |-> y, m |-> m, d |-> d]

IsLeapYear(y) == (y % 4 = 0 /\ y % 100 # 0) \/ y % 400 = 0

DaysInMonth(y, m) ==
    CASE m \in {1, 3, 5, 7, 8, 10, 12} -> 31
      [] m \in {4, 6, 9, 11} -> 30
      [] m = 2 -> IF IsLeapYear(y) THEN 29 ELSE 28
      [] OTHER -> 0

NaiveDate_from_str(s) ==
    IF /\ Len(s) = 10
       /\ s[5] = "-" /\ s[8] = "-"
       /\ \A i \in {1, 2, 3, 4, 6, 7, 9, 10} : s[i] \in Digits
    THEN LET y == AccumulateDigits(0, SubSeq(s, 1, 4))
             m == AccumulateDigits(0, SubSeq(s, 6, 7))
             d == AccumulateDigits(0, SubSeq(s, 9, 10)) IN
         IF m \in 1..12 /\ d \in 1..DaysInMonth(y, m)
         THEN Ok(NaiveDate(y, m, d))
         ELSE Err([parse |-> "OutOfRange"])
    ELSE Err([parse |-> "Invalid"])

NaiveDate_deserialize(v) ==
    IF v.t # "string" THEN Err(InvalidType(Unexpected(v), "a formatted date string"))
    ELSE LET r == NaiveDate_from_str(v.s) IN
         IF r.ok THEN r
         ELSE Err(CustomError(IF r.err.parse = "OutOfRange"
                              THEN "input is out of range"
                              ELSE "input contains invalid characters"))

DigitChar(n) ==
    CASE n = 0 -> "0" [] n = 1 -> "1" [] n = 2 -> "2" [] n = 3 -> "3"
      [] n = 4 -> "4" [] n = 5 -> "5" [] n = 6 -> "6" [] n = 7 -> "7"
      [] n = 8 -> "8" [] n = 9 -> "9"

\* zero-padded decimal of n in exactly w digits
RECURSIVE Pad(_, _)
Pad(n, w) ==
    IF w = 0 THEN <<>> ELSE Append(Pad(n \div 10, w - 1), DigitChar(n % 10))

\* {:04}-{:02}-{:02}, years 0..9999
NaiveDate_to_string(date) ==
    Pad(date.y, 4) \o <<"-">> \o Pad(date.m, 2) \o <<"-">> \o Pad(date.d, 2)

(***************************************************************************)
(* The record schemas.  One descriptor per field, in declaration order:    *)
(*   name    the Rust field name                                           *)
(*   key     the name on the wire (after rename / rename_all)              *)
(*   ty      the field's type                                              *)
(*   with    the deserialize_with adapter, or "none"                       *)
(*   default whether the field is declared #[serde(default)]               *)
(***************************************************************************)
SymbolData_fields ==
    <<[name |-> "symbol", key |-> "symbol", ty |-> "String", with |-> "none", default |-> FALSE],
      [name |-> "name", key |-> "name", ty |-> "String", with |-> "none", default |-> FALSE],
      [name |-> "date", key |-> "date", ty |-> "NaiveDate", with |-> "none", default |-> FALSE],
      [name |-> "is_enabled", key |-> "isEnabled", ty |-> "bool", with |-> "none", default |-> FALSE],
      [name |-> "issue_type", key |-> "type", ty |-> "String", with |-> "none", default |-> FALSE],
      [name |-> "iex_id", key |-> "iexId", ty |-> "u64", with |-> "from_str", default |-> TRUE]>>

CorporateActionsData_fields ==
    <<[name |-> "record_id", key |-> "RecordID", ty |-> "String", with |-> "none", default |-> FALSE],
      [name |-> "daily_list_timestamp", key |-> "DailyListTimestamp", ty |-> "String", with |-> "none", default |-> FALSE],
      [name |-> "effective_date", key |-> "EffectiveDate", ty |-> "NaiveDate", with |-> "none", default |-> FALSE],
      [name |-> "issue_event", key |-> "IssueEvent", ty |-> "String", with |-> "none", default |-> FALSE],
      [name |-> "current_symbol_in_inets_symbology", key |-> "CurrentSymbolinINETSymbology", ty |-> "String", with |-> "none", default |-> FALSE],
      [name |-> "current_symbol_in_cqss_symbology", key |-> "CurrentSymbolinCQSSymbology", ty |-> "String", with |-> "none", default |-> FALSE],
      [name |-> "current_symbol_in_cmss_symbology", key |-> "CurrentSymbolinCMSSymbology", ty |-> "String", with |-> "none", default |-> FALSE],
      [name |-> "new_symbol_in_inets_symbology", key |-> "NewSymbolinINETSymbology", ty |-> "String", with |-> "none", default |-> FALSE],
      [name |-> "new_symbol_in_cqss_symbology", key |-> "NewSymbolinCQSSymbology", ty |-> "String", with |-> "none", default |-> FALSE],
      [name |-> "new_symbol_in_cmss_symbology", key |-> "NewSymbolinCMSSymbology", ty |-> "String", with |-> "none", default |-> FALSE],
      [name |-> "current_security_name", key |-> "CurrentSecurityName", ty |-> "String", with |-> "none", default |-> FALSE],
      [name |-> "new_security_name", key |-> "NewSecurityName", ty |-> "String", with |-> "none", default |-> FALSE],
      [name |-> "current_company_name", key |-> "CurrentCompanyName", ty |-> "String", with |-> "none", default |-> FALSE],
      [name |-> "new_company_name", key |-> "NewCompanyName", ty |-> "String", with |-> "none", default |-> FALSE],
      [name |-> "current_listing_center", key |-> "CurrentListingCenter", ty |-> "String", with |-> "none", default |-> FALSE],
      [name |-> "new_round_lot_size", key |-> "NewRoundLotSize", ty |-> "u64", with |-> "from_str", default |-> TRUE],
      [name |-> "current_luld_tier_indicator", key |-> "CurrentLULDTierIndicator", ty |-> "u64", with |-> "from_str", default |-> TRUE],
      [name |-> "new_luld_tier_indicator", key |-> "NewLULDTierIndicator", ty |-> "u64", with |-> "from_str", default |-> TRUE],
      [name |-> "expiration_date", key |-> "ExpirationDate", ty |-> "u64", with |-> "from_str", default |-> TRUE],
      [name |-> "separation_date", key |-> "SeparationDate", ty |-> "u64", with |-> "from_str", default |-> TRUE],
      [name |-> "settlement_date", key |-> "SettlementDate", ty |-> "u64", with |-> "from_str", default |-> TRUE],
      [name |-> "maturity_date", key |-> "MaturityDate", ty |-> "u64", with |-> "from_str", default |-> TRUE],
      [name |-> "redemption_date", key |-> "RedemptionDate", ty |-> "u64", with |-> "from_str", default |-> TRUE],
      [name |-> "current_financial_status", key |-> "CurrentFinancialStatus", ty |-> "String", with |-> "none", default |-> FALSE],
      [name |-> "new_financial_status", key |-> "NewFinancialStatus", ty |-> "String", with |-> "none", default |-> FALSE],
      [name |-> "when_issued_flag", key |-> "WhenIssuedFlag", ty |-> "bool", with |-> "from_bool_str", default |-> FALSE],
      [name |-> "when_distributed_flag", key |-> "WhenDistributedFlag", ty |-> "bool", with |-> "from_bool_str", default |-> FALSE],
      [name |-> "ipo_flag", key |-> "IPOFlag", ty |-> "bool", with |-> "from_bool_str", default |-> FALSE],
      [name |-> "notes_for_each_entry", key |-> "NotesforEachEntry", ty |-> "String", with |-> "none", default |-> FALSE],
      [name |-> "record_update_time", key |-> "RecordUpdateTime", ty |-> "String", with |-> "none", default |-> FALSE]>>

AuctionData_fields ==
    <<[name |-> "auction_type", key |-> "auctionType", ty |-> "String", with |-> "none", default |-> FALSE],
      [name |-> "paired_shares", key |-> "pairedShares", ty |-> "u64", with |-> "none", default |-> FALSE],
      [name |-> "imbalance_shares", key |-> "imbalanceShares", ty |-> "u64", with |-> "none", default |-> FALSE],
      [name |-> "imbalance_side", key |-> "imbalanceSide", ty |-> "String", with |-> "none", default |-> FALSE],
      [name |-> "reference_price", key |-> "referencePrice", ty |-> "u64", with |-> "none", default |-> FALSE],
      [name |-> "indicative_price", key |-> "indicativePrice", ty |-> "u64", with |-> "none", default |-> FALSE],
      [name |-> "auction_book_price", key |-> "auctionBookPrice", ty |-> "u64", with |-> "none", default |-> FALSE],
      [name |-> "collar_reference_price", key |-> "collarReferencePrice", ty |-> "u64", with |-> "none", default |-> FALSE],
      [name |-> "lower_collar_price", key |-> "lowerCollarPrice", ty |-> "f64", with |-> "none", default |-> FALSE],
      [name |-> "upper_collar_price", key |-> "upperCollarPrice", ty |-> "f64", with |-> "none", default |-> FALSE],
      [name |-> "extension_number", key |-> "extensionNumber", ty |-> "u64", with |-> "none", default |-> FALSE],
      [name |-> "start_time", key |-> "startTime", ty |-> "u64", with |-> "none", default |-> FALSE],
      [name |-> "timestamp", key |-> "timestamp", ty |-> "u64", with |-> "none", default |-> FALSE]>>

MarketData_fields ==
    <<[name |-> "mic", key |-> "mic", ty |-> "String", with |-> "none", default |-> FALSE],
      [name |-> "tape_id", key |-> "tapeId", ty |-> "String", with |-> "none", default |-> FALSE],
      [name |-> "venue_name", key |-> "venueName", ty |-> "String", with |-> "none", default |-> FALSE],
      [name |-> "volume", key |-> "volume", ty |-> "u64", with |-> "none", default |-> FALSE],
      [name |-> "tape_a", key |-> "tapeA", ty |-> "u64", with |-> "none", default |-> FALSE],
      [name |-> "tape_b", key |-> "tapeB", ty |-> "u64", with |-> "none", default |-> FALSE],
      [name |-> "tape_c", key |-> "tapeC", ty |-> "u64", with |-> "none", default |-> FALSE],
      [name |-> "market_percent", key |-> "marketPercent", ty |-> "f64", with |-> "none", default |-> FALSE],
      [name |-> "last_updated", key |-> "lastUpdated", ty |-> "u64", with |-> "none", default |-> FALSE]>>

\* every object key of the model in bytewise order, the order in which a
\* serde_json object (a BTreeMap) yields its entries
KeysInOrder ==
    <<"AAPL", "CUSIP", "CurrentCompanyName", "CurrentFinancialStatus",
      "CurrentLULDTierIndicator", "CurrentListingCenter",
      "CurrentRoundLotSize", "CurrentSecurityName",
      "CurrentSymbolinCMSSymbology", "CurrentSymbolinCQSSymbology",
      "CurrentSymbolinINETSymbology", "DailyListTimestamp",
      "DelistingReason", "EffectiveDate", "ExpirationDate", "IPOFlag",
      "IssueEvent", "MaturityDate", "NewCompanyName", "NewFinancialStatus",
      "NewLULDTierIndicator", "NewListingCenter", "NewRoundLotSize",
      "NewSecurityName", "NewSymbolinCMSSymbology",
      "NewSymbolinCQSSymbology", "NewSymbolinINETSymbology",
      "NotesforEachEntry", "RecordID", "RecordUpdateTime",
      "RedemptionDate", "SeparationDate", "SettlementDate",
      "WhenDistributedFlag", "WhenIssuedFlag", "ZIEXT", "auctionBookPrice",
      "auctionType", "collarReferencePrice", "date", "extensionNumber",
      "iexId", "imbalanceShares", "imbalanceSide", "indicativePrice",
      "isEnabled", "lastUpdated", "lowerCollarPrice", "marketPercent",
      "mic", "name", "pairedShares", "referencePrice", "startTime",
      "symbol", "tapeA", "tapeB", "tapeC", "tapeId", "timestamp", "type",
      "upperCollarPrice", "venueName", "volume">>

KeyRank(k) == CHOOSE i \in 1..Len(KeysInOrder) : KeysInOrder[i] = k

SchemaNames == {"SymbolData", "CorporateActionsData", "AuctionData", "MarketData"}

Schema(T) ==
    CASE T = "SymbolData" -> SymbolData_fields
      [] T = "CorporateActionsData" -> CorporateActionsData_fields
      [] T = "AuctionData" -> AuctionData_fields
      [] T = "MarketData" -> MarketData_fields

FieldNames(fields) == {fields[i].name : i \in 1..Len(fields)}
FieldKeys(fields) == {fields[i].key : i \in 1..Len(fields)}
FieldIndex(fields, n) == CHOOSE i \in 1..Len(fields) : fields[i].name = n

\* the fields decoded through a coercion adapter
CoercedIndexes(fields) == {i \in 1..Len(fields) : fields[i].with # "none"}

(***************************************************************************)
(* The Deserialize implementation serde derives for a struct.              *)
(***************************************************************************)
\* Default::default() of a field type (only u64 fields declare a default)
Default_one(ty) == CASE ty = "u64" -> 1

Default(ty) == CASE ty = "u64" -> 0

deserialize_field(fd, v) ==
    CASE fd.with = "from_str" -> from_str(fd.ty, v)
      [] fd.with = "from_bool_str" -> from_bool_str(v)
      [] fd.ty = "String" -> String_deserialize(v)
      [] fd.ty = "NaiveDate" -> NaiveDate_deserialize(v)
      [] fd.ty = "bool" -> bool_deserialize(v)
      [] fd.ty = "u64" -> u64_deserialize(v)
      [] fd.ty = "f64" -> f64_deserialize(v)

\* a missing field is an error whether or not it declares a default
missing_field_ignoring_default(fd) == Err(MissingField(fd.key))

missing_field(fd) ==
    IF fd.default THEN Ok(Default(fd.ty)) ELSE Err(MissingField(fd.key))

\* visit_map of a struct declared #[serde(deny_unknown_fields)]
visit_map_deny_unknown_fields(fields, m) ==
    LET all == 1..Len(fields)
        present == {i \in all : fields[i].key \in DOMAIN m}
        unknown == DOMAIN m \ {fields[i].key : i \in all}
        res(i) == IF i \in present
                  THEN deserialize_field(fields[i], m[fields[i].key])
                  ELSE missing_field(fields[i])
        bad == {i \in all : ~res(i).ok}
    IN IF unknown # {}
       THEN Err([kind |-> "unknown_field",
                 field |-> CHOOSE k \in unknown :
                             \A j \in unknown : KeyRank(k) <= KeyRank(j)])
       ELSE IF bad # {} THEN res(CHOOSE i \in bad : \A j \in bad : i <= j)
       ELSE Ok([n \in FieldNames(fields) |-> res(FieldIndex(fields, n)).val])

\* visit_map: entries are decoded in the object's key order and the first
\* failure is returned; unknown keys are skipped; then the fields that never
\* appeared are filled in, in declaration order.
visit_map(fields, m) ==
    LET all == 1..Len(fields)
        present == {i \in all : fields[i].key \in DOMAIN m}
        res(i) == IF i \in present
                  THEN deserialize_field(fields[i], m[fields[i].key])
                  ELSE missing_field(fields[i])
        badPresent == {i \in present : ~res(i).ok}
        badMissing == {i \in all \ present : ~res(i).ok}
    IN IF badPresent # {}
       THEN res(CHOOSE i \in badPresent :
                  \A j \in badPresent : KeyRank(fields[i].key) <= KeyRank(fields[j].key))
       ELSE IF badMissing # {}
       THEN res(CHOOSE i \in badMissing : \A j \in badMissing : i <= j)
       ELSE Ok([n \in FieldNames(fields) |-> res(FieldIndex(fields, n)).val])

\* visit_seq: a struct may also arrive as an array of its fields in
\* declaration order
visit_seq(T, fields, a) ==
    LET all == 1..Len(fields)
        res(i) == IF i <= Len(a) THEN deserialize_field(fields[i], a[i])
                  ELSE IF fields[i].default THEN Ok(Default(fields[i].ty))
                  ELSE Err([kind |-> "invalid_length", len |-> i - 1, expected |-> T])
        bad == {i \in all : ~res(i).ok}
    IN IF bad # {} THEN res(CHOOSE i \in bad : \A j \in bad : i <= j)
       ELSE IF Len(a) > Len(fields)
       THEN Err([kind |-> "invalid_length", len |-> Len(a),
                 expected |-> "fewer elements in array"])
       ELSE Ok([n \in FieldNames(fields) |-> res(FieldIndex(fields, n)).val])

deserialize_struct(T, v) ==
    CASE v.t = "object" -> visit_map(Schema(T), v.m)
      [] v.t = "array" -> visit_seq(T, Schema(T), v.a)
      [] OTHER -> Err(InvalidType(Unexpected(v), T))

\* the Serialize implementation serde derives for a struct: every field is
\* written under its wire key with the Serialize of its own type
serialize_field(fd, x) ==
    CASE fd.ty = "String" -> JString(x)
      [] fd.ty = "NaiveDate" -> JString(NaiveDate_to_string(x))
      [] fd.ty = "bool" -> JBool(x)
      [] fd.ty = "u64" -> JPosInt(x)
      [] fd.ty = "f64" -> IF x.fin THEN JFloat(x) ELSE JNull

serialize_struct(T, rec) ==
    LET fields == Schema(T)
        at(k) == CHOOSE i \in 1..Len(fields) : fields[i].key = k
    IN JObject([k \in FieldKeys(fields) |->
                  serialize_field(fields[at(k)], rec[fields[at(k)].name])])

(***************************************************************************)
(* Targets of a typed conversion: one record, Vec<record> (Symbols,        *)
(* CorporateActions, Market) and HashMap<String, record> (Auctions).       *)
(***************************************************************************)
Shapes == {"one", "Vec", "HashMap"}

Target(shape, T) == [shape |-> shape, schema |-> T]

\* the symbols that key a keyed payload
SymbolKeys == {"AAPL", "ZIEXT"}

Vec_deserialize(T, v) ==
    IF v.t # "array" THEN Err(InvalidType(Unexpected(v), "a sequence"))
    ELSE LET res(i) == deserialize_struct(T, v.a[i])
             bad == {i \in 1..Len(v.a) : ~res(i).ok}
         IN IF bad # {} THEN res(CHOOSE i \in bad : \A j \in bad : i <= j)
            ELSE Ok([i \in 1..Len(v.a) |-> res(i).val])

HashMap_deserialize(T, v) ==
    IF v.t # "object" THEN Err(InvalidType(Unexpected(v), "a map"))
    ELSE LET res(k) == deserialize_struct(T, v.m[k])
             bad == {k \in DOMAIN v.m : ~res(k).ok}
         IN IF bad # {}
            THEN res(CHOOSE k \in bad : \A j \in bad : KeyRank(k) <= KeyRank(j))
            ELSE Ok([k \in DOMAIN v.m |-> res(k).val])

\* a conversion that only knows the single-record shape
from_value_single_only(target, v) == deserialize_struct(target.schema, v)

\* serde_json::from_value::<T>
from_value(target, v) ==
    CASE target.shape = "one" -> deserialize_struct(target.schema, v)
      [] target.shape = "Vec" -> Vec_deserialize(target.schema, v)
      [] target.shape = "HashMap" -> HashMap_deserialize(target.schema, v)

\* Response::try_into::<T>(self): the conversion result of the wrapped value
try_into(target, response) == from_value(target, response)

(***************************************************************************)
(* Sample payloads: the payloads of the repository's tests and doc         *)
(* comments.  The millisecond timestamps of the auction and market samples *)
(* are given in seconds to stay within 32-bit integers.                    *)
(***************************************************************************)
SymbolData_sample ==
    JObject([symbol |-> JString(<<"A">>),
             name |-> JString(<<"A", "g", "i", "l", "e", "n", "t", " ", "T", "e", "c", "h", "n", "o", "l", "o", "g", "i", "e", "s", " ", "I", "n", "c", ".">>),
             date |-> JString(<<"2", "0", "1", "8", "-", "1", "0", "-", "2", "3">>),
             isEnabled |-> JBool(TRUE),
             type |-> JString(<<"c", "s">>),
             iexId |-> JString(<<"2">>)])

CorporateActionsData_sample ==
    JObject([RecordID |-> JString(<<" ", "C", "A", "2", "0", "1", "7", "1", "1", "0", "8", "1", "5", "3", "8", "0", "8", "1", "4", "4">>),
             DailyListTimestamp |-> JString(<<"2", "0", "1", "7", "-", "1", "1", "-", "0", "8", "T", "1", "7", ":", "0", "0", ":", "0", "0">>),
             EffectiveDate |-> JString(<<"2", "0", "1", "7", "-", "1", "1", "-", "1", "0">>),
             IssueEvent |-> JString(<<"A", "A">>),
             CurrentSymbolinINETSymbology |-> JString(<<"Z", "E", "X", "I", "T", "-">>),
             CurrentSymbolinCQSSymbology |-> JString(<<"Z", "E", "X", "I", "T", "p">>),
             CurrentSymbolinCMSSymbology |-> JString(<<"Z", "E", "X", "I", "T", " ", "P", "R">>),
             NewSymbolinINETSymbology |-> JString(<<>>),
             NewSymbolinCQSSymbology |-> JString(<<>>),
             NewSymbolinCMSSymbology |-> JString(<<>>),
             CurrentSecurityName |-> JString(<<"Z", "E", "X", "I", "T", " ", "P", "r", "e", "f", "f", "e", "r", "e", "d", " ", "S", "t", "o", "c", "k">>),
             NewSecurityName |-> JString(<<>>),
             CurrentCompanyName |-> JString(<<"Z", "E", "X", "I", "T", " ", "T", "e", "s", "t", " ", "C", "o", "m", "p", "a", "n", "y">>),
             NewCompanyName |-> JString(<<>>),
             CurrentListingCenter |-> JString(<<>>),
             NewListingCenter |-> JString(<<"V">>),
             DelistingReason |-> JString(<<>>),
             CurrentRoundLotSize |-> JString(<<"1", "0", "0">>),
             NewRoundLotSize |-> JString(<<>>),
             CurrentLULDTierIndicator |-> JString(<<"0">>),
             NewLULDTierIndicator |-> JString(<<>>),
             ExpirationDate |-> JString(<<"0">>),
             SeparationDate |-> JString(<<"0">>),
             SettlementDate |-> JString(<<"0">>),
             MaturityDate |-> JString(<<"0">>),
             RedemptionDate |-> JString(<<"0">>),
             CurrentFinancialStatus |-> JString(<<"0">>),
             NewFinancialStatus |-> JString(<<>>),
             WhenIssuedFlag |-> JString(<<"N">>),
             WhenDistributedFlag |-> JString(<<"N">>),
             IPOFlag |-> JString(<<"N">>),
             NotesforEachEntry |-> JString(<<"N", "e", "w", " ", "p", "r", "e", "f", "e", "r", "r", "e", "d", " ", "Z", "I", "E", "X", "T", " ", "s", "e", "c", "u", "r", "i", "t", "y">>),
             RecordUpdateTime |-> JString(<<"2", "0", "1", "7", "-", "1", "1", "-", "0", "8", "T", "1", "6", ":", "3", "4", ":", "4", "3">>)])

AuctionData_sample ==
    JObject([auctionType |-> JString(<<"C", "l", "o", "s", "e">>),
             pairedShares |-> JPosInt(2000),
             imbalanceShares |-> JPosInt(0),
             imbalanceSide |-> JString(<<"N", "o", "n", "e">>),
             referencePrice |-> JPosInt(1),
             indicativePrice |-> JPosInt(1),
             auctionBookPrice |-> JPosInt(1),
             collarReferencePrice |-> JPosInt(1),
             lowerCollarPrice |-> JFloat(F64(50000)),
             upperCollarPrice |-> JFloat(F64(150000)),
             extensionNumber |-> JPosInt(0),
             startTime |-> JPosInt(1540324800),
             timestamp |-> JPosInt(1540324799)])

MarketData_sample ==
    JObject([mic |-> JString(<<"T", "R", "F">>),
             tapeId |-> JString(<<"-">>),
             venueName |-> JString(<<"T", "R", "F", " ", "V", "o", "l", "u", "m", "e">>),
             volume |-> JPosInt(589171705),
             tapeA |-> JPosInt(305187928),
             tapeB |-> JPosInt(119650027),
             tapeC |-> JPosInt(164333750),
             marketPercent |-> JFloat(F64(37027)),
             lastUpdated |-> JPosInt(1480433817)])

Sample(T) ==
    CASE T = "SymbolData" -> SymbolData_sample
      [] T = "CorporateActionsData" -> CorporateActionsData_sample
      [] T = "AuctionData" -> AuctionData_sample
      [] T = "MarketData" -> MarketData_sample

(***************************************************************************)
(* Endpoint descriptors and their path segments (Endpoint::to_endpoint for *)
(* StocksEndpoint).                                                        *)
(***************************************************************************)
Book == [variant |-> "Book"]
Quote == [variant |-> "Quote"]
Chart(duration) == [variant |-> "Chart", duration |-> duration]
List(param) == [variant |-> "List", param |-> param]

Duration_token(duration) ==
    CASE duration = "OneDay" -> <<"1", "d">>
      [] duration = "OneMonth" -> <<"1", "m">>

ListParam_token(param) ==
    CASE param = "Gainers" -> <<"g", "a", "i", "n", "e", "r", "s">>

to_endpoint(req) ==
    CASE req.variant = "Book" -> <<"b", "o", "o", "k">>
      [] req.variant = "Quote" -> <<"q", "u", "o", "t", "e">>
      [] req.variant = "Chart" -> <<"c", "h", "a", "r", "t", "/">> \o Duration_token(req.duration)
      [] req.variant = "List" -> <<"l", "i", "s", "t", "/">> \o ListParam_token(req.param)

StocksEndpoints == {Book, Chart("OneDay"), List("Gainers")}

(***************************************************************************)
(* Client::stocks_request.                                                 *)
(***************************************************************************)
IEX_ENDPOINT ==
    <<"h", "t", "t", "p", "s", ":", "/", "/", "a", "p", "i", ".", "i", "e", "x", "t", "r", "a", "d", "i", "n", "g", ".", "c", "o", "m", "/", "1", ".", "0">>

STR_stock == <<"/", "s", "t", "o", "c", "k", "/">>

\* the symbol with trailing blanks removed
RECURSIVE TrimEnd(_)
TrimEnd(s) ==
    IF s # <<>> /\ s[Len(s)] = " " THEN TrimEnd(SubSeq(s, 1, Len(s) - 1)) ELSE s

\* the URL formatted from the trimmed symbol
stocks_request_url_trimmed(symbol, req) ==
    IEX_ENDPOINT \o STR_stock \o TrimEnd(symbol) \o <<"/">> \o to_endpoint(req)

\* the URL written into a buffer that still holds the previous URL
stocks_request_url_reused_buffer(symbol, req) ==
    (IF gets = <<>> THEN <<>> ELSE gets[Len(gets)].url)
    \o IEX_ENDPOINT \o STR_stock \o symbol \o <<"/">> \o to_endpoint(req)

\* format!("{base}/stock/{symbol}/{endpoint}", ...)
stocks_request_url(symbol, req) ==
    IEX_ENDPOINT \o STR_stock \o symbol \o <<"/">> \o to_endpoint(req)

NotRun == Err([kind |-> "not_run"])

(***************************************************************************)
(* Coercion: one adapter applied to one input.                             *)
(***************************************************************************)
\* non-string JSON values a coerced field may hold
NonStringValues ==
    {JNull, JBool(TRUE), JBool(FALSE), JPosInt(0), JPosInt(2), JNegInt(0 - 2),
     JFloat(F64(150000)), JArray(<<>>), JObject(<<>>)}

CoerceInputs == {JString(s) : s \in Strings} \cup NonStringValues

CoIdle ==
    /\ co_T = "u64" /\ co_input = JNull /\ co_op = "none" /\ co_out = NotRun

DeIdle ==
    /\ de_T = "SymbolData" /\ de_shape = "one" /\ de_rec = <<>>
    /\ de_json = JNull /\ de_target = Target("one", "SymbolData")
    /\ de_out = NotRun /\ de_pc = "idle"

InitCoerce ==
    /\ co_T \in NumericTypes
    /\ co_input \in CoerceInputs
    /\ co_op = "none"
    /\ co_out = NotRun

CallFromStr ==
    /\ co_op = "none"
    /\ co_out' = from_str(co_T, co_input)
    /\ co_op' = "from_str"
    /\ UNCHANGED <<co_T, co_input, de_vars, cl_vars>>

CallFromBoolStr ==
    /\ co_op = "none"
    /\ co_out' = from_bool_str(co_input)
    /\ co_op' = "from_bool_str"
    /\ UNCHANGED <<co_T, co_input, de_vars, cl_vars>>

NextCoerce == CallFromStr \/ CallFromBoolStr

(***************************************************************************)
(* Decoding: payloads and record values.                                   *)
(***************************************************************************)
\* most elements of an array payload / entries of a keyed payload
MaxElems == 2

\* texts a perturbed field may carry
FieldTexts ==
    {<<>>, <<"0">>, <<"2">>, <<"4", "2">>, <<"a">>, <<"4", "a">>,
     <<"N">>, <<"F">>, <<"Y">>, <<"T">>, <<"n">>,
     <<"2", "0", "1", "8", "-", "1", "0", "-", "2", "3">>,
     <<"2", "0", "1", "8", "-", "0", "2", "-", "3", "0">>}

FieldValues == {JString(s) : s \in FieldTexts} \cup NonStringValues

Without(m, k) == [x \in DOMAIN m \ {k} |-> m[x]]

\* the sample as an array of its field values in declaration order
SampleAsArray(T) ==
    JArray([i \in 1..Len(Schema(T)) |-> Sample(T).m[Schema(T)[i].key]])

\* payloads for one record: the sample, the sample with one entry replaced
\* or removed, and payloads that are not objects
RecordPayloads(T) ==
    LET m == Sample(T).m IN
    {Sample(T), SampleAsArray(T), JNull, JString(<<>>)}
    \cup {JObject([m EXCEPT ![k] = v]) : k \in DOMAIN m, v \in FieldValues}
    \cup {JObject(Without(m, k)) : k \in DOMAIN m}

With(m, k, v) == [x \in DOMAIN m \cup {k} |-> IF x = k THEN v ELSE m[x]]

\* a key no schema declares (the service adds CUSIP for permissioned tokens)
UndeclaredKey == "CUSIP"

UndeclaredValues == {JString(<<"a">>), JNull}

\* the object payloads for one record with the undeclared key added
ExtraKeyPayloads(T) ==
    {JObject(With(p.m, UndeclaredKey, v)) :
        p \in {q \in RecordPayloads(T) : q.t = "object"}, v \in UndeclaredValues}

\* a second decodable payload, differing from the sample in its first field,
\* and one that does not decode (its first field is missing)
AltSample(T) ==
    JObject([Sample(T).m EXCEPT ![Schema(T)[1].key] = JString(<<"B">>)])
BadSample(T) == JObject(Without(Sample(T).m, Schema(T)[1].key))

ElemPayloads(T) == {Sample(T), AltSample(T), BadSample(T)}

RECURSIVE SeqsOfLen(_, _)
SeqsOfLen(S, n) ==
    IF n = 0 THEN {<<>>}
    ELSE {Append(s, x) : s \in SeqsOfLen(S, n - 1), x \in S}

ArrayPayloads(T) ==
    {JArray(a) : a \in UNION {SeqsOfLen(ElemPayloads(T), n) : n \in 0..MaxElems}}

KeyedPayloads(T) ==
    {JObject(m) : m \in UNION {[K -> ElemPayloads(T)] :
                                 K \in {X \in SUBSET SymbolKeys : Cardinality(X) <= MaxElems}}}

Payloads(shape, T) ==
    CASE shape = "one" -> RecordPayloads(T) \cup ExtraKeyPayloads(T)
      [] shape = "Vec" -> ArrayPayloads(T)
      [] shape = "HashMap" -> KeyedPayloads(T)

\* the records the samples decode to
SymbolData_record ==
    [symbol |-> <<"A">>,
     name |-> <<"A", "g", "i", "l", "e", "n", "t", " ", "T", "e", "c", "h", "n", "o", "l", "o", "g", "i", "e", "s", " ", "I", "n", "c", ".">>,
     date |-> NaiveDate(2018, 10, 23),
     is_enabled |-> TRUE,
     issue_type |-> <<"c", "s">>,
     iex_id |-> 2]

CorporateActionsData_record ==
    [record_id |-> <<" ", "C", "A", "2", "0", "1", "7", "1", "1", "0", "8", "1", "5", "3", "8", "0", "8", "1", "4", "4">>,
     daily_list_timestamp |-> <<"2", "0", "1", "7", "-", "1", "1", "-", "0", "8", "T", "1", "7", ":", "0", "0", ":", "0", "0">>,
     effective_date |-> NaiveDate(2017, 11, 10),
     issue_event |-> <<"A", "A">>,
     current_symbol_in_inets_symbology |-> <<"Z", "E", "X", "I", "T", "-">>,
     current_symbol_in_cqss_symbology |-> <<"Z", "E", "X", "I", "T", "p">>,
     current_symbol_in_cmss_symbology |-> <<"Z", "E", "X", "I", "T", " ", "P", "R">>,
     new_symbol_in_inets_symbology |-> <<>>,
     new_symbol_in_cqss_symbology |-> <<>>,
     new_symbol_in_cmss_symbology |-> <<>>,
     current_security_name |-> <<"Z", "E", "X", "I", "T", " ", "P", "r", "e", "f", "f", "e", "r", "e", "d", " ", "S", "t", "o", "c", "k">>,
     new_security_name |-> <<>>,
     current_company_name |-> <<"Z", "E", "X", "I", "T", " ", "T", "e", "s", "t", " ", "C", "o", "m", "p", "a", "n", "y">>,
     new_company_name |-> <<>>,
     current_listing_center |-> <<>>,
     new_round_lot_size |-> 0,
     current_luld_tier_indicator |-> 0,
     new_luld_tier_indicator |-> 0,
     expiration_date |-> 0,
     separation_date |-> 0,
     settlement_date |-> 0,
     maturity_date |-> 0,
     redemption_date |-> 0,
     current_financial_status |-> <<"0">>,
     new_financial_status |-> <<>>,
     when_issued_flag |-> FALSE,
     when_distributed_flag |-> FALSE,
     ipo_flag |-> FALSE,
     notes_for_each_entry |-> <<"N", "e", "w", " ", "p", "r", "e", "f", "e", "r", "r", "e", "d", " ", "Z", "I", "E", "X", "T", " ", "s", "e", "c", "u", "r", "i", "t", "y">>,
     record_update_time |-> <<"2", "0", "1", "7", "-", "1", "1", "-", "0", "8", "T", "1", "6", ":", "3", "4", ":", "4", "3">>]

AuctionData_record ==
    [auction_type |-> <<"C", "l", "o", "s", "e">>,
     paired_shares |-> 2000,
     imbalance_shares |-> 0,
     imbalance_side |-> <<"N", "o", "n", "e">>,
     reference_price |-> 1,
     indicative_price |-> 1,
     auction_book_price |-> 1,
     collar_reference_price |-> 1,
     lower_collar_price |-> F64(50000),
     upper_collar_price |-> F64(150000),
     extension_number |-> 0,
     start_time |-> 1540324800,
     timestamp |-> 1540324799]

MarketData_record ==
    [mic |-> <<"T", "R", "F">>,
     tape_id |-> <<"-">>,
     venue_name |-> <<"T", "R", "F", " ", "V", "o", "l", "u", "m", "e">>,
     volume |-> 589171705,
     tape_a |-> 305187928,
     tape_b |-> 119650027,
     tape_c |-> 164333750,
     market_percent |-> F64(37027),
     last_updated |-> 1480433817]

SampleRecord(T) ==
    CASE T = "SymbolData" -> SymbolData_record
      [] T = "CorporateActionsData" -> CorporateActionsData_record
      [] T = "AuctionData" -> AuctionData_record
      [] T = "MarketData" -> MarketData_record

TypedValues(ty) ==
    CASE ty = "String" -> {<<>>, <<"N">>, <<"a">>}
      [] ty = "NaiveDate" -> {NaiveDate(2018, 10, 23), NaiveDate(2020, 2, 29), NaiveDate(987, 1, 5)}
      [] ty = "bool" -> {TRUE, FALSE}
      [] ty = "u64" -> {0, 2, 42}
      [] ty = "f64" -> {F64(0), F64(50000), F64_INFINITY}

\* record values: the sample record with one field replaced
Records(T) ==
    {SampleRecord(T)}
    \cup UNION {{[SampleRecord(T) EXCEPT ![Schema(T)[i].name] = x] :
                   x \in TypedValues(Schema(T)[i].ty)} : i \in 1..Len(Schema(T))}

InitDecode ==
    /\ de_T \in SchemaNames
    /\ de_shape \in Shapes
    /\ de_target = Target(de_shape, de_T)
    /\ de_out = NotRun
    /\ \/ /\ de_pc = "payload"
          /\ de_rec = <<>>
          /\ de_json \in Payloads(de_shape, de_T)
       \/ /\ de_pc = "record"
          /\ de_shape = "one"
          /\ de_rec \in Records(de_T)
          /\ de_json = JNull

\* serde_json::to_value(&record)
Serialize ==
    /\ de_pc = "record"
    /\ de_json' = serialize_struct(de_T, de_rec)
    /\ de_pc' = "payload"
    /\ UNCHANGED <<de_T, de_shape, de_rec, de_target, de_out, co_vars, cl_vars>>

\* Response(value).try_into::<target>()
Convert ==
    /\ de_pc = "payload"
    /\ \E shape \in Shapes :
         /\ de_target' = Target(shape, de_T)
         /\ de_out' = try_into(de_target', de_json)
    /\ de_pc' = "done"
    /\ UNCHANGED <<de_T, de_shape, de_rec, de_json, co_vars, cl_vars>>

NextDecode == Serialize \/ Convert

\* no client at all
ClIdle == calls = <<>> /\ gets = <<>> /\ envelopes = <<>> /\ conv = <<>>

CoerceInit == InitCoerce /\ DeIdle /\ ClIdle

SpecCoerce == CoerceInit /\ [][NextCoerce]_vars

DecodeInit == InitDecode /\ CoIdle /\ ClIdle

SpecDecode == DecodeInit /\ [][NextDecode]_vars

(***************************************************************************)
(* The client.  A stocks_request call blocks in reqwest::get, so it is     *)
(* split where it waits for the fetch collaborator: StocksRequestSend      *)
(* formats the URL and issues the GET, StocksRequestReturn receives the    *)
(* collaborator's answer and runs the rest of the call.                    *)
(***************************************************************************)
\* most GET requests issued in one behaviour
MaxRequests == 2

Callers == {"c1", "c2"}

Symbols == {<<"a", "a", "p", "l">>, <<"A", "I", "G", "+", " ">>}

\* what the fetch collaborator may answer: no connection, or a status with
\* a body that is well-formed JSON text for some value or is not JSON
NoConnection == [conn |-> FALSE]
HttpResponse(status, body) == [conn |-> TRUE, status |-> status, body |-> body]
JsonText(v) == [wellformed |-> TRUE, value |-> v]
NotJson == [wellformed |-> FALSE]

IsSuccess(status) == status >= 200 /\ status <= 299

KeyedAuction == JObject([ZIEXT |-> AuctionData_sample])

FetchOutcomes ==
    {NoConnection,
     HttpResponse(200, JsonText(KeyedAuction)),
     HttpResponse(200, NotJson),
     HttpResponse(404, JsonText(JString(<<"N", "o", "t", " ", "F", "o", "u", "n", "d">>)))}

\* stocks_request falling back to an empty envelope when the body is not JSON
stocks_request_return_default_envelope(outcome) ==
    IF ~outcome.conn
    THEN [ret |-> "Err", error |-> "transport", parsed |-> FALSE, value |-> JNull]
    ELSE IF outcome.body.wellformed
    THEN [ret |-> "Ok", error |-> "none", parsed |-> TRUE, value |-> outcome.body.value]
    ELSE [ret |-> "Ok", error |-> "none", parsed |-> TRUE, value |-> JNull]

\* the rest of stocks_request once reqwest::get has answered:
\*   Ok(reqwest::get(&url)?.json()?)
\* parsed records whether Response::json was called on the answer
stocks_request_return(outcome) ==
    IF ~outcome.conn
    THEN [ret |-> "Err", error |-> "transport", parsed |-> FALSE, value |-> JNull]
    ELSE IF outcome.body.wellformed
    THEN [ret |-> "Ok", error |-> "none", parsed |-> TRUE, value |-> outcome.body.value]
    ELSE [ret |-> "Err", error |-> "json", parsed |-> TRUE, value |-> JNull]

NoCall ==
    [pc |-> "idle", symbol |-> <<>>, req |-> Book, url |-> <<>>, get |-> 0,
     outcome |-> NoConnection, ret |-> "none", error |-> "none",
     parsed |-> FALSE, env |-> 0]

\* a Response filled from a buffer shared by all calls on the client: once an
\* envelope exists, later ones repeat its value
NewResponse_shared_buffer(value, get) ==
    [value |-> IF envelopes = <<>> THEN value ELSE envelopes[1].value,
     live |-> TRUE, converts |-> 0, get |-> get]

\* a Response as created by stocks_request: it owns its value until moved
NewResponse(value, get) ==
    [value |-> value, live |-> TRUE, converts |-> 0, get |-> get]

\* try_into takes self by value and Response is neither Copy nor Clone:
\* the call moves the Response, which is gone afterwards
\* try_into borrowing the Response instead of consuming it
moved_borrowing(response) == [response EXCEPT !.converts = @ + 1]

moved(response) == [response EXCEPT !.live = FALSE, !.converts = @ + 1]

ConvertTargets == {Target("HashMap", "AuctionData"), Target("one", "AuctionData")}

NoConversion == [env |-> 0, target |-> Target("one", "AuctionData"), out |-> NotRun]

InitClient ==
    /\ calls = [c \in Callers |-> NoCall]
    /\ gets = <<>>
    /\ envelopes = <<>>
    /\ conv = NoConversion

StocksRequestSend(c, symbol, req) ==
    /\ calls[c].pc = "idle"
    /\ Len(gets) < MaxRequests
    /\ LET url == stocks_request_url(symbol, req) IN
       /\ gets' = Append(gets, [method |-> "GET", url |-> url, symbol |-> symbol, req |-> req])
       /\ calls' = [calls EXCEPT ![c] =
                      [NoCall EXCEPT !.pc = "fetching", !.symbol = symbol,
                                     !.req = req, !.url = url, !.get = Len(gets) + 1]]
    /\ UNCHANGED <<envelopes, conv, co_vars, de_vars>>

StocksRequestReturn(c, outcome) ==
    /\ calls[c].pc = "fetching"
    /\ LET r == stocks_request_return(outcome) IN
       /\ envelopes' = IF r.ret = "Ok"
                       THEN Append(envelopes, NewResponse(r.value, calls[c].get))
                       ELSE envelopes
       /\ calls' = [calls EXCEPT ![c] =
                      [@ EXCEPT !.pc = "idle", !.outcome = outcome, !.ret = r.ret,
                                !.error = r.error, !.parsed = r.parsed,
                                !.env = IF r.ret = "Ok" THEN Len(envelopes) + 1 ELSE 0]]
    /\ UNCHANGED <<gets, conv, co_vars, de_vars>>

\* response.try_into::<target>()
TryInto(e, target) ==
    /\ e \in 1..Len(envelopes)
    /\ envelopes[e].live
    /\ conv' = [env |-> e, target |-> target, out |-> try_into(target, envelopes[e].value)]
    /\ envelopes' = [envelopes EXCEPT ![e] = moved(@)]
    /\ UNCHANGED <<calls, gets, co_vars, de_vars>>

NextClient ==
    \/ \E c \in Callers, symbol \in Symbols, req \in StocksEndpoints :
         StocksRequestSend(c, symbol, req)
    \/ \E c \in Callers, outcome \in FetchOutcomes : StocksRequestReturn(c, outcome)
    \/ \E e \in 1..MaxRequests, target \in ConvertTargets : TryInto(e, target)

Init == InitClient /\ CoIdle /\ DeIdle

Next == NextClient

Spec == Init /\ [][Next]_vars

(***************************************************************************)
(* Numerals, defined independently of the parser: an optional sign, then   *)
(* one or more decimal digits, denoting a number in the range of T.        *)
(***************************************************************************)
RECURSIVE Pow10(_)
Pow10(n) == IF n = 0 THEN 1 ELSE 10 * Pow10(n - 1)

RECURSIVE PositionalValue(_)
PositionalValue(ds) ==
    IF ds = <<>> THEN 0
    ELSE DigitVal(Head(ds)) * Pow10(Len(ds) - 1) + PositionalValue(Tail(ds))

HasSign(T, s) ==
    s # <<>> /\ (s[1] = "+" \/ (s[1] = "-" /\ T = "i8"))

Magnitude(T, s) == IF HasSign(T, s) THEN Tail(s) ELSE s

NumeralValue(T, s) ==
    IF s[1] = "-" THEN 0 - PositionalValue(Magnitude(T, s))
    ELSE PositionalValue(Magnitude(T, s))

\* the range of T; texts of the model are far shorter than the 20 digits of
\* u64::MAX, so for u64 only the lower end can be missed
InRange(T, n) ==
    CASE T = "u64" -> n >= 0
      [] T = "u8" -> n >= 0 /\ n <= 255
      [] T = "i8" -> n >= 0 - 128 /\ n <= 127

IsNumeral(T, s) ==
    /\ Magnitude(T, s) # <<>>
    /\ \A i \in 1..Len(Magnitude(T, s)) : Magnitude(T, s)[i] \in Digits
    /\ InRange(T, NumeralValue(T, s))

(***************************************************************************)
(* C1: from_str on a JSON string s: s = "" decodes to 0 for every numeric  *)
(* target type, a valid numeral of the target type decodes to the number   *)
(* it denotes, and every other non-empty string makes decoding fail.       *)
(***************************************************************************)
C1_FromStrContract ==
    (co_op = "from_str" /\ co_input.t = "string") =>
        LET s == co_input.s IN
        /\ s = <<>> => (co_out.ok /\ co_out.val = 0)
        /\ (s # <<>> /\ IsNumeral(co_T, s)) =>
               (co_out.ok /\ co_out.val = NumeralValue(co_T, s))
        /\ (s # <<>> /\ ~IsNumeral(co_T, s)) => ~co_out.ok

C1_Witness ==
    /\ co_op = "from_str" /\ co_T = "u64"
    /\ co_input = JString(<<"4", "2">>)
    /\ co_out.ok /\ co_out.val = 42

(***************************************************************************)
(* C2: from_bool_str never fails on a JSON string, and its result is false *)
(* exactly when the string is "N", "F" or "" (case-sensitive).             *)
(***************************************************************************)
C2_FromBoolStrTotal ==
    (co_op = "from_bool_str" /\ co_input.t = "string") =>
        /\ co_out.ok
        /\ (co_out.val = FALSE) <=> (co_input.s \in {<<"N">>, <<"F">>, <<>>})

C2_Witness ==
    /\ co_op = "from_bool_str"
    /\ co_input = JString(<<"n">>)
    /\ co_out.ok /\ co_out.val = TRUE

(***************************************************************************)
(* Payloads that are the sample of their schema except at coerced fields.  *)
(***************************************************************************)
WirePayload == de_shape = "one" /\ DOMAIN de_rec = {} /\ de_json.t = "object"

DecodedOne == de_pc = "done" /\ de_target.shape = "one" /\ WirePayload

CoercedFields(T) == {Schema(T)[i] : i \in CoercedIndexes(Schema(T))}

SampleExceptCoerced ==
    \A k \in DOMAIN Sample(de_T).m :
        k \notin {fd.key : fd \in CoercedFields(de_T)} =>
            (k \in DOMAIN de_json.m /\ de_json.m[k] = Sample(de_T).m[k])

Absent(fd) == fd.key \notin DOMAIN de_json.m

\* the field's value is not a well-formed encoding for its adapter
Malformed(fd) ==
    /\ ~Absent(fd)
    /\ LET v == de_json.m[fd.key] IN
       \/ v.t # "string"
       \/ fd.with = "from_str" /\ v.s # <<>> /\ ~IsNumeral(fd.ty, v.s)

EmptyText(fd) == ~Absent(fd) /\ de_json.m[fd.key] = JString(<<>>)

DefaultOf(fd) == IF fd.ty = "bool" THEN FALSE ELSE 0

(***************************************************************************)
(* C3 as stated: neither the absence nor a malformed encoding of a coerced *)
(* field aborts decoding; the field takes its default (0 / false).         *)
(***************************************************************************)
C3_Original ==
    (DecodedOne /\ SampleExceptCoerced) =>
        /\ de_out.ok
        /\ \A fd \in CoercedFields(de_T) :
              (Absent(fd) \/ Malformed(fd)) => de_out.val[fd.name] = DefaultOf(fd)

(***************************************************************************)
(* C3 as amended: absence of a coerced field that declares a default (the  *)
(* string-encoded numeric fields), and an empty-string encoding of any     *)
(* coerced field, never abort decoding; the field takes its default.       *)
(***************************************************************************)
C3_DefaultsOnAbsentOrEmpty ==
    (/\ DecodedOne /\ SampleExceptCoerced
     /\ \A fd \in CoercedFields(de_T) :
           /\ Absent(fd) => fd.default
           /\ ~Malformed(fd)) =>
        /\ de_out.ok
        /\ \A fd \in CoercedFields(de_T) :
              (Absent(fd) \/ EmptyText(fd)) => de_out.val[fd.name] = DefaultOf(fd)

C3_Witness ==
    /\ DecodedOne /\ SampleExceptCoerced
    /\ de_T = "SymbolData"
    /\ "iexId" \notin DOMAIN de_json.m
    /\ de_out.ok /\ de_out.val.iex_id = 0

(***************************************************************************)
(* C4: serializing a record with the schema's Serialize and decoding the   *)
(* result with the schema's Deserialize succeeds and yields the record.    *)
(***************************************************************************)
C4_RoundTrip ==
    (de_pc = "done" /\ DOMAIN de_rec # {} /\ de_target.shape = "one") =>
        (de_out.ok /\ de_out.val = de_rec)

(***************************************************************************)
(* C6: when a coerced numeric field holds non-empty text that does not     *)
(* parse, the error names the field and carries the raw text.              *)
(***************************************************************************)
ErrorNamesField(e, k) == "field" \in DOMAIN e /\ e.field = k
ErrorCarriesText(e, s) == "unexpected" \in DOMAIN e /\ e.unexpected = JString(s)

C6_ErrorNamesFieldAndText ==
    (DecodedOne /\ SampleExceptCoerced) =>
        \A fd \in CoercedFields(de_T) :
            (fd.with = "from_str" /\ Malformed(fd) /\ de_json.m[fd.key].t = "string") =>
                /\ ~de_out.ok
                /\ ErrorNamesField(de_out.err, fd.key)
                /\ ErrorCarriesText(de_out.err, de_json.m[fd.key].s)

(***************************************************************************)
(* C5: when the fetch collaborator answers with a non-success status,      *)
(* stocks_request returns a transport error and never parses the body; a   *)
(* body is parsed only after a success status.                             *)
(***************************************************************************)
Returned(c) == calls[c].pc = "idle" /\ calls[c].get > 0

C5_NonSuccessIsTransportError ==
    \A c \in Callers :
        (Returned(c) /\ calls[c].outcome.conn) =>
            /\ ~IsSuccess(calls[c].outcome.status) =>
                   (calls[c].ret = "Err" /\ calls[c].error = "transport"
                    /\ ~calls[c].parsed)
            /\ calls[c].parsed => IsSuccess(calls[c].outcome.status)

(***************************************************************************)
(* C7: the URL handed to the fetch collaborator is exactly the base URL,   *)
(* "/stock/", the symbol verbatim, "/" and the descriptor's endpoint       *)
(* segment, with nothing inserted or removed.                              *)
(***************************************************************************)
C7_UrlShape ==
    \A i \in 1..Len(gets) :
        LET u == gets[i].url
            s == gets[i].symbol
            seg == to_endpoint(gets[i].req)
            b == Len(IEX_ENDPOINT)
            p == b + Len(STR_stock)
        IN /\ Len(u) = p + Len(s) + 1 + Len(seg)
           /\ SubSeq(u, 1, b) = IEX_ENDPOINT
           /\ SubSeq(u, b + 1, p) = <<"/", "s", "t", "o", "c", "k", "/">>
           /\ SubSeq(u, p + 1, p + Len(s)) = s
           /\ u[p + Len(s) + 1] = "/"
           /\ SubSeq(u, p + Len(s) + 2, Len(u)) = seg

C7_Witness ==
    \E i \in 1..Len(gets) :
        /\ gets[i].symbol = <<"A", "I", "G", "+", " ">>
        /\ gets[i].req = Chart("OneDay")
        /\ gets[i].url = <<"h", "t", "t", "p", "s", ":", "/", "/", "a", "p", "i", ".", "i", "e", "x", "t", "r", "a", "d", "i", "n", "g", ".", "c", "o", "m", "/", "1", ".", "0", "/", "s", "t", "o", "c", "k", "/", "A", "I", "G", "+", " ", "/", "c", "h", "a", "r", "t", "/", "1", "d">>

ElemRecord(T, v) ==
    IF v = Sample(T) THEN SampleRecord(T)
    ELSE [SampleRecord(T) EXCEPT ![Schema(T)[1].name] = <<"B">>]

Decodable(T) == {Sample(T), AltSample(T)}

C9_ThreeShapes ==
    (de_pc = "done" /\ DOMAIN de_rec = {} /\ de_target = Target(de_shape, de_T)) =>
        /\ (de_shape = "one" /\ de_json \in Decodable(de_T)) =>
               (de_out.ok /\ de_out.val = ElemRecord(de_T, de_json))
        /\ (de_shape = "Vec" /\ \A i \in 1..Len(de_json.a) : de_json.a[i] \in Decodable(de_T)) =>
               /\ de_out.ok
               /\ Len(de_out.val) = Len(de_json.a)
               /\ \A i \in 1..Len(de_json.a) :
                      de_out.val[i] = ElemRecord(de_T, de_json.a[i])
        /\ (de_shape = "HashMap" /\ \A k \in DOMAIN de_json.m : de_json.m[k] \in Decodable(de_T)) =>
               /\ de_out.ok
               /\ DOMAIN de_out.val = DOMAIN de_json.m
               /\ \A k \in DOMAIN de_json.m :
                      de_out.val[k] = ElemRecord(de_T, de_json.m[k])

C9_Witness ==
    /\ de_pc = "done" /\ de_T = "AuctionData"
    /\ de_shape = "HashMap" /\ de_target = Target("HashMap", "AuctionData")
    /\ DOMAIN de_json.m = {"ZIEXT"}
    /\ de_out.ok
    /\ DOMAIN de_out.val = {"ZIEXT"}
    /\ de_out.val["ZIEXT"].auction_type = <<"C", "l", "o", "s", "e">>

(***************************************************************************)
(* C10: every envelope is created by one request and is converted at most  *)
(* once: once try_into has been called on it, returning a record or an     *)
(* error, it is gone and cannot be converted again.                        *)
(***************************************************************************)
C10_ConsumedOnce ==
    /\ \A e \in 1..Len(envelopes) :
          /\ envelopes[e].converts <= 1
          /\ envelopes[e].live <=> envelopes[e].converts = 0
          /\ envelopes[e].get \in 1..Len(gets)
    /\ \A e, f \in 1..Len(envelopes) :
          envelopes[e].get = envelopes[f].get => e = f

C10_Witness ==
    /\ conv.env \in 1..Len(envelopes)
    /\ ~envelopes[conv.env].live
    /\ envelopes[conv.env].converts = 1
    /\ ~conv.out.ok

(***************************************************************************)
(* C11: no retry and no silent recovery.  A stocks_request call issues     *)
(* exactly one GET, when it starts, and nothing else is ever sent; when    *)
(* the fetch fails or the body is not JSON the call returns the error,     *)
(* without a second GET and without creating an envelope.                  *)
(***************************************************************************)
C11_OneGetNoRecovery ==
    [][/\ \A c \in Callers :
            /\ (calls[c].pc = "idle" /\ calls'[c].pc = "fetching") =>
                   /\ Len(gets') = Len(gets) + 1
                   /\ SubSeq(gets', 1, Len(gets)) = gets
                   /\ gets'[Len(gets')].method = "GET"
                   /\ gets'[Len(gets')].url = calls'[c].url
            /\ (calls[c].pc = "fetching" /\ calls'[c].pc = "idle") =>
                   /\ gets' = gets
                   /\ (\/ ~calls'[c].outcome.conn
                       \/ ~calls'[c].outcome.body.wellformed) =>
                          /\ calls'[c].ret = "Err"
                          /\ calls'[c].env = 0
                          /\ envelopes' = envelopes
       /\ (\A c \in Callers : calls'[c].pc = calls[c].pc) => gets' = gets
      ]_vars

C11_Witness ==
    \E c \in Callers :
        /\ Returned(c)
        /\ calls[c].outcome = HttpResponse(200, NotJson)
        /\ calls[c].ret = "Err" /\ calls[c].error = "json"
        /\ Len(gets) = 1
        /\ envelopes = <<>>

(***************************************************************************)
(* C12: concurrent callers sharing the client are independent.  What a     *)
(* call returns is decided by its own symbol, descriptor and answer alone: *)
(* its envelope belongs to its own GET and carries its own answer's value, *)
(* and two calls with the same inputs and answer return the same, whatever *)
(* the order in which the calls started and finished.                      *)
(***************************************************************************)
C12_CallersIndependent ==
    /\ \A c \in Callers :
          (Returned(c) /\ calls[c].ret = "Ok") =>
              /\ calls[c].env \in 1..Len(envelopes)
              /\ envelopes[calls[c].env].get = calls[c].get
              /\ envelopes[calls[c].env].value = calls[c].outcome.body.value
              /\ gets[calls[c].get].url = calls[c].url
    /\ \A c, d \in Callers :
          (/\ Returned(c) /\ Returned(d)
           /\ calls[c].symbol = calls[d].symbol /\ calls[c].req = calls[d].req
           /\ calls[c].outcome = calls[d].outcome) =>
              /\ calls[c].url = calls[d].url
              /\ calls[c].ret = calls[d].ret /\ calls[c].error = calls[d].error
              /\ calls[c].ret = "Ok" =>
                     envelopes[calls[c].env].value = envelopes[calls[d].env].value

\* two overlapping calls that finished in the opposite order of their start
C12_Witness ==
    /\ Returned("c1") /\ Returned("c2")
    /\ calls["c1"].get = 1 /\ calls["c2"].get = 2
    /\ calls["c2"].env = 1 /\ calls["c1"].env = 2
    /\ envelopes[1].value = JString(<<"N", "o", "t", " ", "F", "o", "u", "n", "d">>)
    /\ envelopes[2].value = KeyedAuction

(***************************************************************************)
(* C13: keys of a payload that the schema does not declare are ignored.    *)
(* Decoding a payload gives the same result, success or error, as decoding *)
(* it with its undeclared keys removed, and the documented corporate       *)
(* action sample, which carries three undeclared keys, decodes with        *)
(* ipo_flag = false and effective_date = 2017-11-10.                       *)
(***************************************************************************)
DeclaredOnly(T, m) == [k \in DOMAIN m \cap FieldKeys(Schema(T)) |-> m[k]]

C13_UndeclaredKeysIgnored ==
    DecodedOne =>
        /\ de_out = deserialize_struct(de_T, JObject(DeclaredOnly(de_T, de_json.m)))
        /\ (de_T = "CorporateActionsData" /\ de_json = CorporateActionsData_sample) =>
               /\ de_out.ok
               /\ de_out.val.ipo_flag = FALSE
               /\ de_out.val.effective_date = NaiveDate(2017, 11, 10)

C13_Witness ==
    /\ DecodedOne
    /\ de_T = "CorporateActionsData"
    /\ de_json = CorporateActionsData_sample
    /\ {"NewListingCenter", "DelistingReason", "CurrentRoundLotSize"} \subseteq DOMAIN de_json.m
    /\ de_out.ok /\ de_out.val.ipo_flag = FALSE

(***************************************************************************)
(* C14: for every string-encoded numeric field declared with a default, a  *)
(* payload without the key decodes to the same result as the payload with  *)
(* the key present and holding the empty string; when the rest of the      *)
(* payload decodes, decoding succeeds and the field is 0 in both cases.    *)
(***************************************************************************)
OtherCoercedWellFormed ==
    \A g \in CoercedFields(de_T) : (Absent(g) => g.default) /\ ~Malformed(g)

C14_AbsentEqualsEmpty ==
    DecodedOne =>
        \A fd \in CoercedFields(de_T) :
            (fd.with = "from_str" /\ fd.default) =>
                /\ Absent(fd) =>
                       de_out = deserialize_struct(
                                    de_T, JObject(With(de_json.m, fd.key, JString(<<>>))))
                /\ EmptyText(fd) =>
                       de_out = deserialize_struct(
                                    de_T, JObject(Without(de_json.m, fd.key)))
                /\ ((Absent(fd) \/ EmptyText(fd))
                    /\ SampleExceptCoerced /\ OtherCoercedWellFormed) =>
                       (de_out.ok /\ de_out.val[fd.name] = 0)

C14_Witness ==
    /\ DecodedOne /\ SampleExceptCoerced
    /\ de_T = "CorporateActionsData"
    /\ "NewRoundLotSize" \notin DOMAIN de_json.m
    /\ de_out.ok /\ de_out.val.new_round_lot_size = 0

(***************************************************************************)
(* C15: the coercion adapters accept only JSON strings.  When a coerced    *)
(* field is present with a non-string value (a number, a boolean, null,    *)
(* ...) decoding of the record fails; the value is neither parsed directly *)
(* nor replaced by the 0 / false default.                                  *)
(***************************************************************************)
NonString(fd) == ~Absent(fd) /\ de_json.m[fd.key].t # "string"

C15_NonStringRejected ==
    DecodedOne =>
        \A fd \in CoercedFields(de_T) :
            NonString(fd) =>
                /\ ~de_out.ok
                /\ SampleExceptCoerced =>
                       /\ de_out.err.kind = "invalid_type"
                       /\ de_out.err.expected = "a string"
                       /\ de_out.err.unexpected = Unexpected(de_json.m[fd.key])

C15_Witness ==
    /\ DecodedOne /\ SampleExceptCoerced
    /\ de_T = "SymbolData"
    /\ "iexId" \in DOMAIN de_json.m
    /\ de_json.m["iexId"] = JPosInt(2)
    /\ ~de_out.ok /\ de_out.err.kind = "invalid_type"

====
